---- MODULE Spec2Model ----
(***************************************************************************)
(* A model of twitchio.ext.commands.bot.Bot: the command registry          *)
(* (add_command / get_command), the per-message pipeline (get_prefix,      *)
(* get_context, handle_commands, invoke, handle_checks, _run_cooldowns)    *)
(* the event bus (add_event, run_event and the tasks it creates) and the    *)
(* modules and cogs (load_module, unload_module, reload_module, add_cog,   *)
(* remove_cog).                                                            *)
(***************************************************************************)
EXTENDS Integers, Sequences, FiniteSets, TLC

VARIABLES
    commands,         \* Bot._commands: name -> Command
    command_aliases,  \* Bot._command_aliases: alias -> name
    prefix,           \* Bot._prefix
    events,           \* Bot._events: event name -> ordered list of callbacks
    tasks,            \* the loop's queue of tasks made by loop.create_task
    finished,         \* history: how the last task of each subscriber and
                      \* event ended, and the publications it made
    dispatch,         \* the handle_commands calls in flight, one per slot
    cache,            \* the cooldown buckets' shared state
    uses,             \* history: per command and user, the time since the
                      \* last dispatch that passed the cooldown stage
    lastOp,           \* the last synchronous call made on the bot and its outcome
    modules,          \* Bot._modules: module name -> module object
    cogs              \* Bot._cogs: cog name -> Cog

vars == <<commands, command_aliases, prefix, events, tasks, finished,
          dispatch, cache, uses, lastOp, modules, cogs>>

(***************************************************************************)
(* Bounds of the model.                                                    *)
(***************************************************************************)
MaxAliases == 2
MaxDispatch == 1
MaxSubs == 2
MaxQueue == 2
Per == 2
Rate == 1

\* The strings used as command names and aliases.
Names == {"a", "b", "c"}

EmptyMap == [k \in {} |-> "none"]

Put(map, key, value) ==
    [k \in (DOMAIN map) \cup {key} |-> IF k = key THEN value ELSE map[k]]

Del(map, key) ==
    [k \in (DOMAIN map) \ {key} |-> map[k]]

SeqsUpTo(S, n) == UNION {[1..k -> S] : k \in 0..n}

(***************************************************************************)
(* Command objects, as bot.py reads them.                                  *)
(***************************************************************************)
Command(name, aliases, coro) ==
    [is_command       |-> TRUE,
     name             |-> name,
     aliases          |-> aliases,
     coro             |-> coro,       \* inspect.iscoroutinefunction(_callback)
     checks           |-> <<>>,
     no_global_checks |-> FALSE,
     cooldowns        |-> <<>>,
     before_invoke    |-> FALSE,
     after_invoke     |-> FALSE,
     event_error      |-> FALSE,
     nargs            |-> 0,
     cog              |-> "none",     \* the name of the cog it belongs to
     module           |-> "bot"]      \* _callback.__module__

\* An object that is not a Command instance.
NotACommand == [Command("a", <<>>, TRUE) EXCEPT !.is_command = FALSE]

\* The objects handed to add_command.
RegInputs ==
    {Command(n, al, TRUE) : n \in Names, al \in SeqsUpTo(Names, MaxAliases)}
        \cup {NotACommand, Command("a", <<>>, FALSE)}

(***************************************************************************)
(* Bot.add_command.  The result record holds both maps as the call leaves  *)
(* them, the exception raised ("ok" when none) and the line it ends at.    *)
(***************************************************************************)
RECURSIVE add_command_aliases(_, _, _, _)
add_command_aliases(cmds, als, command, i) ==
    IF i > Len(command.aliases)
    THEN [commands |-> cmds, aliases |-> als, result |-> "ok", at |-> 138]
    ELSE IF command.aliases[i] \in DOMAIN cmds
         THEN [commands |-> Del(cmds, command.name), aliases |-> als,
               result |-> "TwitchCommandError", at |-> 135]
         ELSE add_command_aliases(cmds, Put(als, command.aliases[i], command.name),
                                  command, i + 1)

\* add_command without the test of line 122: the new command takes the name.
add_command_overwrite(cmds, als, command) ==
    IF ~command.is_command
    THEN [commands |-> cmds, aliases |-> als, result |-> "TypeError", at |-> 121]
    ELSE IF ~command.coro
    THEN [commands |-> cmds, aliases |-> als,
          result |-> "TwitchCommandError", at |-> 125]
    ELSE IF command.aliases = <<>>
    THEN [commands |-> Put(cmds, command.name, command), aliases |-> als,
          result |-> "ok", at |-> 130]
    ELSE add_command_aliases(Put(cmds, command.name, command), als, command, 1)

add_command(cmds, als, command) ==
    IF ~command.is_command
    THEN [commands |-> cmds, aliases |-> als, result |-> "TypeError", at |-> 121]
    ELSE IF command.name \in DOMAIN cmds
    THEN [commands |-> cmds, aliases |-> als,
          result |-> "TwitchCommandError", at |-> 123]
    ELSE IF ~command.coro
    THEN [commands |-> cmds, aliases |-> als,
          result |-> "TwitchCommandError", at |-> 125]
    ELSE IF command.aliases = <<>>
    THEN [commands |-> Put(cmds, command.name, command), aliases |-> als,
          result |-> "ok", at |-> 130]
    ELSE add_command_aliases(Put(cmds, command.name, command), als, command, 1)

\* Bot.get_command; NotACommand stands for None.
get_command(cmds, als, name) ==
    LET n == IF name \in DOMAIN als THEN als[name] ELSE name
    IN  IF n \in DOMAIN cmds THEN cmds[n] ELSE NotACommand

AddCommand(command) ==
    LET r == add_command(commands, command_aliases, command)
    IN  /\ commands' = r.commands
        /\ command_aliases' = r.aliases
        /\ lastOp' = [op |-> "add_command", arg |-> command.name,
                      result |-> r.result, at |-> r.at]
        /\ UNCHANGED <<modules, cogs, prefix, events, tasks, finished, dispatch, cache, uses>>

NoOp == [op |-> "none", arg |-> "none", result |-> "ok", at |-> 0]


(***************************************************************************)
(* Messages.  A message's content is a sequence of one-character strings.  *)
(***************************************************************************)
Msg(content, author) == [content |-> content, author |-> author]

Users == {"u1", "u2"}

\* The inbound messages: "a", "! a", "!", "!z", "!b", "!"a" (an unterminated
\* quote) and "?x b" from one user, and "!b b" from either user.
Messages ==
    {Msg(c, "u1") : c \in { <<"a">>, <<"!", " ", "a">>, <<"!">>, <<"!", "z">>,
                            <<"!", "b">>, <<"!", "\"", "a">>,
                            <<"?", "x", " ", "b">> }}
        \cup {Msg(<<"!", "b", " ", "b">>, u) : u \in Users}

StartsWith(s, p) == Len(p) <= Len(s) /\ SubSeq(s, 1, Len(p)) = p

\* str.lstrip(' ')
RECURSIVE lstrip(_)
lstrip(s) == IF s # <<>> /\ Head(s) = " " THEN lstrip(Tail(s)) ELSE s

\* The string a sequence of characters spells.
RECURSIVE Str(_)
Str(s) == IF s = <<>> THEN "" ELSE Head(s) \o Str(Tail(s))

(***************************************************************************)
(* Bot.__get_prefixes__ and Bot.get_prefix.  Bot._prefix is a string, a    *)
(* collection of strings, or a callable; a callable that returns neither   *)
(* a string nor a collection is the kind "bad".                            *)
(***************************************************************************)
PrefixConfigs ==
    { [kind |-> "str",  value |-> <<"!">>, values |-> <<>>],
      [kind |-> "list", value |-> <<>>, values |-> << <<"!">>, <<"?">> >>],
      [kind |-> "bad",  value |-> <<>>, values |-> <<>>] }

NoPrefix == [exc |-> "none", found |-> FALSE, value |-> <<>>]

RECURSIVE first_prefix(_, _, _)
first_prefix(prefixes, content, i) ==
    IF i > Len(prefixes) THEN NoPrefix
    ELSE IF StartsWith(content, prefixes[i])
         THEN [exc |-> "none", found |-> TRUE, value |-> prefixes[i]]
         ELSE first_prefix(prefixes, content, i + 1)

\* get_prefix with the test of line 105 left out.
get_prefix_untested(pfx, content) ==
    IF pfx.kind = "bad"
    THEN [exc |-> "TypeError", found |-> FALSE, value |-> <<>>]
    ELSE IF pfx.kind = "list"
    THEN [exc |-> "none", found |-> TRUE, value |-> pfx.values[1]]
    ELSE IF StartsWith(content, pfx.value)
         THEN [exc |-> "none", found |-> TRUE, value |-> pfx.value]
         ELSE NoPrefix

get_prefix(pfx, content) ==
    IF pfx.kind = "bad"
    THEN [exc |-> "TypeError", found |-> FALSE, value |-> <<>>]
    ELSE IF pfx.kind = "list"
    THEN first_prefix(pfx.values, content, 1)
    ELSE IF StartsWith(content, pfx.value)
         THEN [exc |-> "none", found |-> TRUE, value |-> pfx.value]
         ELSE NoPrefix

(***************************************************************************)
(* StringParser.process_string: the text cut into tokens at spaces, a      *)
(* quoted part being one token; an unterminated quote is a ParseError.     *)
(***************************************************************************)
RECURSIVE scan_string(_, _, _, _, _)
scan_string(s, i, word, quoted, words) ==
    IF i > Len(s)
    THEN IF quoted THEN [exc |-> "ParseError", words |-> <<>>]
         ELSE [exc |-> "none",
               words |-> IF word = <<>> THEN words ELSE Append(words, Str(word))]
    ELSE IF s[i] = "\""
    THEN scan_string(s, i + 1, word, ~quoted, words)
    ELSE IF s[i] = " " /\ ~quoted
    THEN scan_string(s, i + 1, <<>>, quoted,
                     IF word = <<>> THEN words ELSE Append(words, Str(word)))
    ELSE scan_string(s, i + 1, Append(word, s[i]), quoted, words)

process_string(s) == scan_string(s, 1, <<>>, FALSE, <<>>)

\* Command.parse_args: every required parameter takes one token.
parse_args(command, words) ==
    IF Len(words) < command.nargs
    THEN [exc |-> "MissingRequiredArgument", args |-> <<>>]
    ELSE [exc |-> "none", args |-> words]

(***************************************************************************)
(* Bot.get_context: the Context made for a message, or the exception       *)
(* that leaves get_context.                                                *)
(***************************************************************************)
Context(exc, valid, has_prefix, command, args) ==
    [exc |-> exc, valid |-> valid, prefix |-> has_prefix, command |-> command,
     args |-> args]

resolve(cmds, als, words) ==
    LET token  == Head(words)
        name   == IF token \in DOMAIN als THEN als[token] ELSE token
    IN  IF name \in DOMAIN cmds
        THEN LET bound == parse_args(cmds[name], Tail(words))
             IN  IF bound.exc # "none"
                 THEN Context(bound.exc, FALSE, TRUE, cmds[name], <<>>)
                 ELSE Context("none", TRUE, TRUE, cmds[name], bound.args)
        ELSE Context("CommandNotFound", FALSE, TRUE, NotACommand, <<>>)

get_context(cmds, als, pfx, message) ==
    LET matched == get_prefix(pfx, message.content)
    IN  IF matched.exc # "none"
        THEN Context(matched.exc, FALSE, FALSE, NotACommand, <<>>)
        ELSE IF ~matched.found \/ matched.value = <<>>
        THEN Context("none", FALSE, FALSE, NotACommand, <<>>)
        ELSE LET content == lstrip(SubSeq(message.content, Len(matched.value) + 1,
                                          Len(message.content)))
                 parsed  == process_string(content)
             IN  IF parsed.exc # "none"
                 THEN Context(parsed.exc, FALSE, TRUE, NotACommand, <<>>)
                 ELSE IF parsed.words = <<>>
                 THEN Context("CommandNotFound", FALSE, TRUE, NotACommand, <<>>)
                 ELSE resolve(cmds, als, parsed.words)

(***************************************************************************)
(* Bot.handle_checks.  A predicate is a plain function ("sync") or a       *)
(* coroutine function ("async"); outcomes[i] is what the body of the i-th  *)
(* predicate does when it runs: "true", "false" or "raise".  The call of   *)
(* a coroutine function only makes a coroutine object: neither function    *)
(* kind is awaitable, so line 279 is the branch taken for both, and the    *)
(* body of an "async" predicate never runs ("unawaited:" and what it       *)
(* would have done).                                                       *)
(***************************************************************************)
global_checks == <<>>

Outcomes == {"true", "false", "raise"}

Ev(stage, n, outcome) == [stage |-> stage, n |-> n, outcome |-> outcome]

checks_of(command) ==
    IF ~command.no_global_checks THEN global_checks \o command.checks
    ELSE command.checks

\* run_checks with a raising predicate reported as a CheckFailure.
RECURSIVE run_checks_wrapped(_, _, _, _)
run_checks_wrapped(checks, outcomes, i, trace) ==
    IF i > Len(checks) THEN [result |-> "True", trace |-> trace]
    ELSE IF checks[i] = "async"
    THEN run_checks_wrapped(checks, outcomes, i + 1,
                            Append(trace, Ev("check", i, "unawaited:" \o outcomes[i])))
    ELSE IF outcomes[i] = "raise"
    THEN [result |-> "CheckFailure",
          trace |-> Append(trace, Ev("check", i, "raise"))]
    ELSE IF outcomes[i] = "false"
    THEN [result |-> "CheckFailure",
          trace |-> Append(trace, Ev("check", i, "false"))]
    ELSE run_checks_wrapped(checks, outcomes, i + 1,
                            Append(trace, Ev("check", i, "true")))

RECURSIVE run_checks(_, _, _, _)
run_checks(checks, outcomes, i, trace) ==
    IF i > Len(checks) THEN [result |-> "True", trace |-> trace]
    ELSE IF checks[i] = "async"
    THEN run_checks(checks, outcomes, i + 1,
                    Append(trace, Ev("check", i, "unawaited:" \o outcomes[i])))
    ELSE IF outcomes[i] = "raise"
    THEN [result |-> "exc:check", trace |-> Append(trace, Ev("check", i, "raise"))]
    ELSE IF outcomes[i] = "false"
    THEN [result |-> "CheckFailure",
          trace |-> Append(trace, Ev("check", i, "false"))]
    ELSE run_checks(checks, outcomes, i + 1, Append(trace, Ev("check", i, "true")))

handle_checks(command, outcomes) ==
    IF checks_of(command) = <<>> THEN [result |-> "True", trace |-> <<>>]
    ELSE run_checks(checks_of(command), outcomes, 1, <<>>)

(***************************************************************************)
(* Cooldown buckets: each holds, per key, the uses that remain in the      *)
(* window and the time left until the window ends (its reset timestamp     *)
(* less the current time).  A key whose window has ended has no entry.     *)
(***************************************************************************)
Bucket(rate, per, key) == [rate |-> rate, per |-> per, key |-> key]

bucket_key(bucket, message) ==
    IF bucket.key = "user" THEN message.author ELSE "global"

update_bucket(cch, id, bucket) ==
    LET entry == IF id \in DOMAIN cch THEN cch[id]
                 ELSE [remaining |-> bucket.rate, left |-> bucket.per]
    IN  IF entry.remaining = 0
        THEN [exc |-> "CommandOnCooldown", cache |-> cch]
        ELSE [exc |-> "none",
              cache |-> Put(cch, id, [entry EXCEPT !.remaining = @ - 1])]

\* One unit of time passes: every window has one unit less to run.
elapse(cch) ==
    [id \in {k \in DOMAIN cch : cch[k].left > 1} |->
        [cch[id] EXCEPT !.left = @ - 1]]

(***************************************************************************)
(* Bot._run_cooldowns: "None" without cooldowns, else the errors caught.   *)
(***************************************************************************)
RECURSIVE update_buckets(_, _, _, _, _)
update_buckets(command, message, buckets, i, cch) ==
    IF i > Len(buckets) THEN [limited |-> <<>>, cache |-> cch]
    ELSE LET r == update_bucket(cch,
                                <<command.name, i, bucket_key(buckets[i], message)>>,
                                buckets[i])
         IN  IF r.exc # "none" THEN [limited |-> <<r.exc>>, cache |-> r.cache]
             ELSE update_buckets(command, message, buckets, i + 1, r.cache)

\* _run_cooldowns with the caught error dropped instead of collected.
run_cooldowns_dropped(command, message, cch) ==
    IF command.cooldowns = <<>> THEN [limited |-> <<>>, cache |-> cch]
    ELSE [limited |-> <<>>,
          cache |-> update_buckets(command, message, command.cooldowns[1], 1,
                                   cch).cache]

\* _run_cooldowns whose update of the bucket is not written back when the
\* stage ends: the next dispatch sees the bucket as it was.
run_cooldowns_unsaved(command, message, cch) ==
    IF command.cooldowns = <<>> THEN [limited |-> <<>>, cache |-> cch]
    ELSE [limited |-> update_buckets(command, message, command.cooldowns[1], 1,
                                     cch).limited,
          cache |-> cch]

run_cooldowns(command, message, cch) ==
    IF command.cooldowns = <<>> THEN [limited |-> <<>>, cache |-> cch]
    ELSE update_buckets(command, message, command.cooldowns[1], 1, cch)

(***************************************************************************)
(* Bot.run_event: one task per subscriber of the event, in list order.     *)
(* The built-in handler (getattr(self, name)) makes no task: Bot has no    *)
(* attribute of the bare event name, and a bound method is no coroutine    *)
(* object, so line 454 is never reached.                                   *)
(***************************************************************************)
Task(func, name, arg) == [func |-> func, event |-> name, arg |-> arg]

subscribers(ev, name) == IF name \in DOMAIN ev THEN ev[name] ELSE <<>>

\* run_event leaving its loop after the first subscriber.
run_event_first(ev, tk, name, arg) ==
    tk \o [i \in 1..(IF subscribers(ev, name) = <<>> THEN 0 ELSE 1) |->
              Task(subscribers(ev, name)[i], name, arg)]

run_event(ev, tk, name, arg) ==
    tk \o [i \in 1..Len(subscribers(ev, name)) |->
              Task(subscribers(ev, name)[i], name, arg)]

Pub(name, err) == [name |-> name, err |-> err]

RECURSIVE run_events(_, _, _)
run_events(ev, tk, pubs) ==
    IF pubs = <<>> THEN tk
    ELSE run_events(ev, run_event(ev, tk, Head(pubs).name, Head(pubs).err),
                    Tail(pubs))

(***************************************************************************)
(* One call of handle_commands: the frame of the coroutine.  pc is the     *)
(* place it is suspended at, trace the stages it ran (for the cooldown     *)
(* stage with the time since the last use that passed, -1 when none),      *)
(* pubs its calls of run_event, raised the exception that left             *)
(* handle_commands.                                                        *)
(***************************************************************************)
NoMsg == Msg(<<>>, "none")

NoCtx == Context("none", FALSE, FALSE, NotACommand, <<>>)

Idle == [pc |-> "idle", msg |-> NoMsg, ctx |-> NoCtx, trace |-> <<>>,
         pubs |-> <<>>, raised |-> "none"]

Slots == 1..MaxDispatch

\* Bot.handle_commands up to the first stage of invoke: get_context, and
\* the return of line 197 when the context has no prefix.
handle_commands(cmds, als, pfx, message) ==
    LET ctx == get_context(cmds, als, pfx, message)
    IN  IF ctx.exc # "none"
        THEN [Idle EXCEPT !.pc = "raised", !.msg = message, !.ctx = ctx,
                          !.raised = ctx.exc]
        ELSE IF ~ctx.prefix
        THEN [Idle EXCEPT !.pc = "done", !.msg = message, !.ctx = ctx]
        ELSE [Idle EXCEPT !.pc = "checks", !.msg = message, !.ctx = ctx]

\* invoke without the return of line 212.
invoke_checks_noreturn(c, outcomes) ==
    LET r == handle_checks(c.ctx.command, outcomes)
    IN  IF r.result # "True"
        THEN [c EXCEPT !.trace = @ \o r.trace,
                       !.pubs = Append(@, Pub("command_error", r.result)),
                       !.pc = "cooldowns"]
        ELSE [c EXCEPT !.trace = @ \o r.trace, !.pc = "cooldowns"]

\* Bot.invoke, lines 208-212
invoke_checks(c, outcomes) ==
    LET r == handle_checks(c.ctx.command, outcomes)
    IN  IF r.result # "True"
        THEN [c EXCEPT !.trace = @ \o r.trace,
                       !.pubs = Append(@, Pub("command_error", r.result)),
                       !.pc = "done"]
        ELSE [c EXCEPT !.trace = @ \o r.trace, !.pc = "cooldowns"]

\* invoke without the return of line 218.
invoke_cooldowns_noreturn(c, limited, since) ==
    IF limited # <<>>
    THEN [c EXCEPT !.trace = Append(@, Ev("cooldown", since, "limited")),
                   !.pubs = Append(@, Pub("command_error", limited[1])),
                   !.pc = "global_before_invoke"]
    ELSE [c EXCEPT !.trace = Append(@, Ev("cooldown", since, "passed")),
                   !.pc = "global_before_invoke"]

\* Bot.invoke, lines 214-218
invoke_cooldowns(c, limited, since) ==
    IF limited # <<>>
    THEN [c EXCEPT !.trace = Append(@, Ev("cooldown", since, "limited")),
                   !.pubs = Append(@, Pub("command_error", limited[1])),
                   !.pc = "done"]
    ELSE [c EXCEPT !.trace = Append(@, Ev("cooldown", since, "passed")),
                   !.pc = "global_before_invoke"]

\* try_run of Bot.invoke, lines 199-206
try_run(c, stage, outcome, to_command) ==
    IF outcome = "raise"
    THEN [c EXCEPT !.trace = Append(@, Ev(stage, 0, "raise")),
                   !.pubs = Append(@, Pub(IF to_command THEN "command_error"
                                          ELSE "error", "exc:" \o stage))]
    ELSE [c EXCEPT !.trace = Append(@, Ev(stage, 0, "ok"))]

after_callback(command) ==
    IF command.after_invoke THEN "after_invoke" ELSE "global_after_invoke"

\* Bot.invoke, lines 226-229
invoke_global_before(c, outcome) ==
    [try_run(c, "global_before_invoke", outcome, FALSE) EXCEPT
        !.pc = IF c.ctx.command.before_invoke THEN "before_invoke" ELSE "callback"]

invoke_before(c, outcome) ==
    [try_run(c, "before_invoke", outcome, TRUE) EXCEPT !.pc = "callback"]

\* Bot.invoke, lines 231-238: the callback, up to the await of the error hook
invoke_callback(c, outcome) ==
    IF outcome = "ok"
    THEN [c EXCEPT !.trace = Append(@, Ev("callback", 0, "ok")),
                   !.pc = after_callback(c.ctx.command)]
    ELSE IF c.ctx.command.event_error
    THEN [c EXCEPT !.trace = Append(@, Ev("callback", 0, "raise")),
                   !.pc = "event_error"]
    ELSE [c EXCEPT !.trace = Append(@, Ev("callback", 0, "raise")),
                   !.pubs = Append(@, Pub("command_error", "exc:callback")),
                   !.pc = after_callback(c.ctx.command)]

\* the error hook of lines 236-238 awaited bare: its exception ends the
\* except block before line 238.
invoke_event_error_bare(c, outcome) ==
    LET h == try_run(c, "event_error", outcome, FALSE)
    IN  IF outcome = "raise" THEN [h EXCEPT !.pc = after_callback(c.ctx.command)]
        ELSE [h EXCEPT !.pubs = Append(@, Pub("command_error", "exc:callback")),
                       !.pc = after_callback(c.ctx.command)]

\* Bot.invoke, lines 236-238: the error hook, then the publication
invoke_event_error(c, outcome) ==
    LET h == try_run(c, "event_error", outcome, FALSE)
    IN  [h EXCEPT !.pubs = Append(@, Pub("command_error", "exc:callback")),
                  !.pc = after_callback(c.ctx.command)]

\* Bot.invoke, lines 240-244
invoke_after(c, outcome) ==
    [try_run(c, "after_invoke", outcome, TRUE) EXCEPT !.pc = "global_after_invoke"]

invoke_global_after(c, outcome) ==
    [try_run(c, "global_after_invoke", outcome, FALSE) EXCEPT !.pc = "done"]

(***************************************************************************)
(* The actions of a dispatch.  Step(d, c) is one run of the coroutine in   *)
(* slot d to its next suspension, ending in frame c.                       *)
(***************************************************************************)
\* Step for a loop that runs one dispatch at a time: no coroutine goes on
\* while the callback of another dispatch has not completed.
StepSerial(d, c) ==
    /\ \A e \in DOMAIN dispatch : dispatch[e].pc # "hung"
    /\ dispatch' = [dispatch EXCEPT ![d] = c]
    /\ tasks' = run_events(events, tasks,
                           SubSeq(c.pubs, Len(dispatch[d].pubs) + 1, Len(c.pubs)))
    /\ UNCHANGED <<modules, cogs, commands, command_aliases, prefix, events, finished, lastOp>>

Step(d, c) ==
    /\ dispatch' = [dispatch EXCEPT ![d] = c]
    /\ tasks' = run_events(events, tasks,
                           SubSeq(c.pubs, Len(dispatch[d].pubs) + 1, Len(c.pubs)))
    /\ UNCHANGED <<modules, cogs, commands, command_aliases, prefix, events, finished, lastOp>>

HandleCommands(d, message) ==
    /\ dispatch[d].pc = "idle"
    /\ Step(d, handle_commands(commands, command_aliases, prefix, message))
    /\ UNCHANGED <<cache, uses>>

HandleChecks(d) ==
    /\ dispatch[d].pc = "checks"
    /\ \E outcomes \in [1..Len(checks_of(dispatch[d].ctx.command)) -> Outcomes] :
          Step(d, invoke_checks(dispatch[d], outcomes))
    /\ UNCHANGED <<cache, uses>>

RunCooldowns(d) ==
    /\ dispatch[d].pc = "cooldowns"
    /\ LET c     == dispatch[d]
           r     == run_cooldowns(c.ctx.command, c.msg, cache)
           id    == <<c.ctx.command.name, c.msg.author>>
           since == IF id \in DOMAIN uses THEN uses[id] ELSE -1
       IN  /\ cache' = r.cache
           /\ uses' = IF r.limited = <<>> /\ c.ctx.command.cooldowns # <<>>
                      THEN Put(uses, id, 0) ELSE uses
           /\ Step(d, invoke_cooldowns(c, r.limited, since))

GlobalBeforeInvoke(d) ==
    /\ dispatch[d].pc = "global_before_invoke"
    /\ \E outcome \in {"ok", "raise"} : Step(d, invoke_global_before(dispatch[d], outcome))
    /\ UNCHANGED <<cache, uses>>

BeforeInvoke(d) ==
    /\ dispatch[d].pc = "before_invoke"
    /\ \E outcome \in {"ok", "raise"} : Step(d, invoke_before(dispatch[d], outcome))
    /\ UNCHANGED <<cache, uses>>

Callback(d) ==
    /\ dispatch[d].pc = "callback"
    /\ \E outcome \in {"ok", "raise"} : Step(d, invoke_callback(dispatch[d], outcome))
    /\ UNCHANGED <<cache, uses>>

EventError(d) ==
    /\ dispatch[d].pc = "event_error"
    /\ \E outcome \in {"ok", "raise"} : Step(d, invoke_event_error(dispatch[d], outcome))
    /\ UNCHANGED <<cache, uses>>

AfterInvoke(d) ==
    /\ dispatch[d].pc = "after_invoke"
    /\ \E outcome \in {"ok", "raise"} : Step(d, invoke_after(dispatch[d], outcome))
    /\ UNCHANGED <<cache, uses>>

GlobalAfterInvoke(d) ==
    /\ dispatch[d].pc = "global_after_invoke"
    /\ \E outcome \in {"ok", "raise"} : Step(d, invoke_global_after(dispatch[d], outcome))
    /\ UNCHANGED <<cache, uses>>

\* handle_commands has returned or raised: its frame is gone.
Return(d) ==
    /\ dispatch[d].pc \in {"done", "raised"}
    /\ dispatch' = [dispatch EXCEPT ![d] = Idle]
    /\ UNCHANGED <<modules, cogs, commands, command_aliases, prefix, events, tasks, finished,
                   cache, uses, lastOp>>

\* Time passes.
Tick ==
    /\ cache # EmptyMap \/ \E id \in DOMAIN uses : uses[id] < Per
    /\ cache' = elapse(cache)
    /\ uses' = [id \in DOMAIN uses |-> IF uses[id] < Per THEN uses[id] + 1 ELSE Per]
    /\ UNCHANGED <<modules, cogs, commands, command_aliases, prefix, events, tasks, finished,
                   dispatch, lastOp>>

(***************************************************************************)
(* Bot.__init__ of a Bot subclass that declares two commands:              *)
(* __init__commands__ adds each, in the order of inspect.getmembers.       *)
(***************************************************************************)
CommandA ==
    [Command("a", <<>>, TRUE) EXCEPT
        !.checks = <<"sync", "sync">>, !.before_invoke = TRUE,
        !.after_invoke = TRUE, !.event_error = TRUE]

CommandB ==
    [Command("b", <<"x">>, TRUE) EXCEPT
        !.nargs = 1, !.cooldowns = << <<Bucket(1, Per, "user")>> >>]

DeclaredCommands == <<CommandA, CommandB>>

RECURSIVE init_commands(_, _, _, _)
init_commands(cmds, als, declared, i) ==
    IF i > Len(declared) THEN [commands |-> cmds, aliases |-> als]
    ELSE LET r == add_command(cmds, als, declared[i])
         IN  init_commands(r.commands, r.aliases, declared, i + 1)

Init ==
    /\ commands = init_commands(EmptyMap, EmptyMap, DeclaredCommands, 1).commands
    /\ command_aliases = init_commands(EmptyMap, EmptyMap, DeclaredCommands, 1).aliases
    /\ prefix \in PrefixConfigs
    /\ events = EmptyMap
    /\ tasks = <<>>
    /\ finished = EmptyMap
    /\ dispatch = [d \in Slots |-> Idle]
    /\ cache = EmptyMap
    /\ uses = EmptyMap
    /\ lastOp = NoOp
    /\ modules = EmptyMap
    /\ cogs = EmptyMap

Next ==
    \/ \E d \in Slots, message \in Messages : HandleCommands(d, message)
    \/ \E d \in Slots : HandleChecks(d)
    \/ \E d \in Slots : RunCooldowns(d)
    \/ \E d \in Slots : GlobalBeforeInvoke(d)
    \/ \E d \in Slots : BeforeInvoke(d)
    \/ \E d \in Slots : Callback(d)
    \/ \E d \in Slots : EventError(d)
    \/ \E d \in Slots : AfterInvoke(d)
    \/ \E d \in Slots : GlobalAfterInvoke(d)
    \/ \E d \in Slots : Return(d)
    \/ Tick

Spec == Init /\ [][Next]_vars

(***************************************************************************)
(* Bot.__init__ of a Bot subclass that declares one command with every     *)
(* stage: a coroutine-function check before a plain one, a cooldown group  *)
(* of two buckets (one use per user, two uses for all users, per window),  *)
(* the three hooks of a command.                                           *)
(***************************************************************************)
CommandG ==
    [Command("g", <<>>, TRUE) EXCEPT
        !.checks = <<"async", "sync">>,
        !.cooldowns = << <<Bucket(1, Per, "user"), Bucket(2, Per, "global")>> >>,
        !.before_invoke = TRUE, !.after_invoke = TRUE, !.event_error = TRUE]

GateMessages == {Msg(<<"!", "g">>, u) : u \in Users}

InitGates ==
    /\ commands = init_commands(EmptyMap, EmptyMap, <<CommandG>>, 1).commands
    /\ command_aliases = init_commands(EmptyMap, EmptyMap, <<CommandG>>, 1).aliases
    /\ prefix = [kind |-> "str", value |-> <<"!">>, values |-> <<>>]
    /\ events = EmptyMap
    /\ tasks = <<>>
    /\ finished = EmptyMap
    /\ dispatch = [d \in Slots |-> Idle]
    /\ cache = EmptyMap
    /\ uses = EmptyMap
    /\ lastOp = NoOp
    /\ modules = EmptyMap
    /\ cogs = EmptyMap

\* The messages are handled one after another: every dispatch is in slot 1.
NextGates ==
    \/ \E message \in GateMessages : HandleCommands(1, message)
    \/ HandleChecks(1)
    \/ RunCooldowns(1)
    \/ GlobalBeforeInvoke(1)
    \/ BeforeInvoke(1)
    \/ Callback(1)
    \/ EventError(1)
    \/ AfterInvoke(1)
    \/ GlobalAfterInvoke(1)
    \/ Return(1)
    \/ Tick

SpecGates == InitGates /\ [][NextGates]_vars

(***************************************************************************)
(* Claims about one dispatch, checked under Spec.                          *)
(***************************************************************************)
Count(seq, x) == Cardinality({i \in 1..Len(seq) : seq[i] = x})

Ran(c, stage) == \E i \in 1..Len(c.trace) : c.trace[i].stage = stage

Has(c, ev) == \E i \in 1..Len(c.trace) : c.trace[i] = ev

\* The stages that run user code after the checks and the cooldown.
HookStages == {"global_before_invoke", "before_invoke", "callback", "event_error",
               "after_invoke", "global_after_invoke"}

\* The message of frame c starts with one of the resolved prefixes.
PrefixMatches(c) ==
    \/ prefix.kind = "str" /\ StartsWith(c.msg.content, prefix.value)
    \/ prefix.kind = "list"
          /\ \E i \in 1..Len(prefix.values) : StartsWith(c.msg.content, prefix.values[i])

\* The message of frame c starts with none of the resolved prefixes.
NoPrefixMatches(c) ==
    /\ c.pc # "idle"
    /\ prefix.kind # "bad"
    /\ ~PrefixMatches(c)

\* The message of frame c starts with a prefix and its first token is
\* neither a registered name nor a registered alias.
UnknownCommand(c) ==
    /\ c.pc # "idle"
    /\ PrefixMatches(c)
    /\ LET pfx    == get_prefix(prefix, c.msg.content).value
           parsed == process_string(lstrip(SubSeq(c.msg.content, Len(pfx) + 1,
                                                  Len(c.msg.content))))
       IN  /\ parsed.exc = "none"
           /\ parsed.words # <<>>
           /\ Head(parsed.words) \notin (DOMAIN commands) \cup (DOMAIN command_aliases)

\* C1: handle_commands never raises to its caller: no call of it ends with
\* an exception leaving it.
C1_HandleCommandsNeverRaises ==
    \A d \in Slots :
        prefix.kind # "bad" => dispatch[d].raised = "none" /\ dispatch[d].pc # "raised"

\* C2: a message with a valid prefix and an unregistered first token makes
\* exactly one command_error publication carrying CommandNotFound, and the
\* callback never starts.
C2_UnknownCommandPublished ==
    \A d \in Slots :
        UnknownCommand(dispatch[d]) =>
            /\ Count(dispatch[d].pubs, Pub("command_error", "CommandNotFound")) = 1
            /\ ~Ran(dispatch[d], "callback")

\* C3: once the callback has raised, the exception does not leave invoke; it
\* is handed to the error hook exactly when the command has one; and once
\* the hook (if any) is over, command_error has been published exactly once
\* with the callback's exception, whether or not the hook raised.
C3_CallbackExceptionContained ==
    \A d \in Slots :
        LET c == dispatch[d]
        IN  Has(c, Ev("callback", 0, "raise")) =>
                /\ c.raised = "none" /\ c.pc # "raised"
                /\ c.ctx.command.event_error
                      <=> (c.pc = "event_error" \/ Ran(c, "event_error"))
                /\ Count(c.pubs, Pub("command_error", "exc:callback"))
                      = IF c.pc = "event_error" THEN 0 ELSE 1

C3_Witness ==
    \E d \in Slots :
        /\ dispatch[d].pc = "done"
        /\ Has(dispatch[d], Ev("callback", 0, "raise"))
        /\ Has(dispatch[d], Ev("event_error", 0, "raise"))

\* C4: a message that starts with none of the resolved prefixes makes no
\* publication and runs no stage: no check, no cooldown update, no hook, no
\* callback; handle_commands returns.
C4_NoPrefixNoEffect ==
    \A d \in Slots :
        NoPrefixMatches(dispatch[d]) =>
            /\ dispatch[d].pc = "done"
            /\ dispatch[d].trace = <<>>
            /\ dispatch[d].pubs = <<>>
            /\ dispatch[d].raised = "none"
            /\ tasks = <<>>

C4_Witness ==
    \E d \in Slots :
        /\ NoPrefixMatches(dispatch[d])
        /\ prefix.kind = "list"
        /\ dispatch[d].pc = "done"

\* C5: when a check predicate returned false, no hook and no callback runs,
\* no cooldown bucket is updated, and exactly one publication is made: a
\* command_error.
C5_FalseCheckStops ==
    \A d \in Slots :
        LET c == dispatch[d]
        IN  (\E i \in 1..Len(c.trace) :
                c.trace[i].stage = "check" /\ c.trace[i].outcome = "false") =>
                /\ c.pc = "done"
                /\ \A i \in 1..Len(c.trace) : c.trace[i].stage = "check"
                /\ Len(c.pubs) = 1
                /\ c.pubs[1].name = "command_error"

C5_Witness ==
    \E d \in Slots :
        /\ Has(dispatch[d], Ev("check", 1, "true"))
        /\ Has(dispatch[d], Ev("check", 2, "false"))
        /\ dispatch[d].ctx.command.before_invoke

\* C6: when a check predicate raised, command_error is published with that
\* exception, it is the only publication, no later predicate is evaluated
\* and no later stage runs.
C6_RaisingCheckReported ==
    \A d \in Slots :
        LET c == dispatch[d]
        IN  \A i \in 1..Len(c.trace) :
                (c.trace[i].stage = "check" /\ c.trace[i].outcome = "raise") =>
                    /\ i = Len(c.trace)
                    /\ c.pc = "done"
                    /\ c.pubs = <<Pub("command_error", "exc:check")>>

C6_Witness ==
    \E d \in Slots :
        /\ dispatch[d].trace = <<Ev("check", 1, "raise")>>
        /\ Len(dispatch[d].ctx.command.checks) = 2

\* C7: for a command with a cooldown of one use per window of Per time
\* units per user: a dispatch is stopped at the cooldown stage exactly when
\* the same user's last dispatch that passed it was less than Per time units
\* ago; a stopped dispatch runs no hook and no callback and publishes
\* command_error with CommandOnCooldown; the others go on to the hooks and
\* reach the callback.
OnePerWindow(command) == command.cooldowns = << <<Bucket(1, Per, "user")>> >>

C7_CooldownWindow ==
    \A d \in Slots :
        LET c == dispatch[d]
        IN  \A i \in 1..Len(c.trace) :
                (c.trace[i].stage = "cooldown" /\ OnePerWindow(c.ctx.command)) =>
                    /\ c.trace[i].outcome = "limited" <=> c.trace[i].n \in 0..(Per - 1)
                    /\ c.trace[i].outcome = "limited" =>
                          /\ i = Len(c.trace)
                          /\ c.pc = "done"
                          /\ c.pubs = <<Pub("command_error", "CommandOnCooldown")>>
                    /\ c.trace[i].outcome # "limited" =>
                          /\ c.trace[i].outcome = "passed"
                          /\ c.pc # "cooldowns"
                          /\ c.pc \in {"event_error", "after_invoke",
                                       "global_after_invoke", "done"}
                                => Ran(c, "callback")
                          /\ c.pubs # <<>> => c.pubs[1].err # "CommandOnCooldown"

\* A dispatch that reached the callback after the user's earlier window ended.
C7_Witness ==
    \E d \in Slots :
        /\ OnePerWindow(dispatch[d].ctx.command)
        /\ Has(dispatch[d], Ev("cooldown", Per, "passed"))
        /\ Ran(dispatch[d], "callback")

(***************************************************************************)
(* The event bus.  A callback handed to add_event is a plain function, a   *)
(* coroutine function (async def), a coroutine object, or a callable       *)
(* object that inspect.iscoroutine accepts; __name__ is its name.          *)
(***************************************************************************)
CallbackKinds == {"function", "coroutine function", "coroutine", "callable coroutine"}

EventCallback(id, kind) ==
    [id |-> id, kind |-> kind, name |-> IF id = "f" THEN "join" ELSE "error"]

Callbacks ==
    {EventCallback(id, "callable coroutine") : id \in {"f", "g"}}
        \cup {EventCallback("f", kind) : kind \in CallbackKinds}

EventNames == {"join", "error"}

\* The events the connection publishes.
PublishedNames == {"join"}

\* inspect.iscoroutine(callback)
iscoroutine(callback) == callback.kind \in {"coroutine", "callable coroutine"}

\* Bot.add_event; name "None" is the default of the parameter.
add_event(ev, callback, name) ==
    LET event_name == IF name = "None" THEN callback.name ELSE name
    IN  IF ~iscoroutine(callback)
        THEN [events |-> ev, result |-> "ValueError", at |-> 472]
        ELSE IF callback.kind = "coroutine"   \* a coroutine object takes no attribute
        THEN [events |-> ev, result |-> "AttributeError", at |-> 475]
        ELSE IF event_name \in DOMAIN ev
        THEN [events |-> [ev EXCEPT ![event_name] = Append(@, callback)],
              result |-> "ok", at |-> 478]
        ELSE [events |-> Put(ev, event_name, <<callback>>), result |-> "ok", at |-> 481]

\* wrapped of Bot.run_event, lines 445-449: the subscriber runs to its end
\* ("ok") or raises; the tasks and the publications that leaves behind.
wrapped(ev, tk, task, outcome) ==
    IF outcome = "raise"
    THEN [tasks |-> run_event(ev, tk, "error", "exc:" \o task.func.id),
          pubs  |-> <<Pub("error", "exc:" \o task.func.id)>>]
    ELSE [tasks |-> tk, pubs |-> <<>>]

Remove(seq, i) == SubSeq(seq, 1, i - 1) \o SubSeq(seq, i + 1, Len(seq))

AddEvent(callback, name) ==
    LET r == add_event(events, callback, name)
    IN  /\ \A n \in DOMAIN r.events : Len(r.events[n]) <= MaxSubs
        /\ events' = r.events
        /\ lastOp' = [op |-> "add_event", arg |-> callback.kind, result |-> r.result,
                      at |-> r.at]
        /\ UNCHANGED <<modules, cogs, commands, command_aliases, prefix, tasks, finished, dispatch,
                       cache, uses>>

\* A call of run_event from outside the bot (the connection publishing an event).
RunEvent(name) ==
    /\ Len(run_event(events, tasks, name, "data")) <= MaxQueue
    /\ tasks' = run_event(events, tasks, name, "data")
    /\ lastOp' = [op |-> "run_event", arg |-> name, result |-> "ok", at |-> 460]
    /\ UNCHANGED <<modules, cogs, commands, command_aliases, prefix, events, finished, dispatch,
                   cache, uses>>

\* The loop runs the i-th task of its queue to the end; tasks end in any order.
RunTask(i, outcome) ==
    /\ i \in 1..Len(tasks)
    /\ LET r == wrapped(events, Remove(tasks, i), tasks[i], outcome)
       IN  /\ Len(r.tasks) <= MaxQueue
           /\ tasks' = r.tasks
           /\ finished' = Put(finished, <<tasks[i].func.id, tasks[i].event>>,
                               [outcome |-> outcome, pubs |-> r.pubs])
    /\ UNCHANGED <<modules, cogs, commands, command_aliases, prefix, events, dispatch, cache, uses,
                   lastOp>>

NextEvents ==
    \/ \E callback \in Callbacks, name \in EventNames \cup {"None"} :
          AddEvent(callback, name)
    \/ \E name \in PublishedNames : RunEvent(name)
    \/ \E i \in 1..MaxQueue, outcome \in {"ok", "raise"} : RunTask(i, outcome)

(***************************************************************************)
(* Claims about the event bus, checked under SpecEvents.                   *)
(***************************************************************************)

\* The tasks a publication of `name` with argument `arg` is to create.
Scheduled(name, arg) ==
    [i \in 1..Len(subscribers(events, name)) |->
        Task(subscribers(events, name)[i], name, arg)]

\* C8: a publication creates one task per subscriber of the event, in
\* subscription order, and returns to its caller; when a subscriber raises,
\* every other task stays in the queue, and the exception is published as
\* an error event, whose subscribers are scheduled with it.
C8_FanOutIsolatesFailures ==
    [][/\ \A name \in PublishedNames :
             (lastOp'.op = "run_event" /\ finished' = finished /\ RunEvent(name)) =>
                 /\ tasks' = tasks \o Scheduled(name, "data")
                 /\ lastOp'.result = "ok"
       /\ (lastOp' = lastOp /\ events' = events) =>
             \A i \in 1..Len(tasks) :
                LET id  == tasks[i].func.id
                    exc == "exc:" \o id
                IN  /\ RunTask(i, "raise") =>
                          /\ tasks' = Remove(tasks, i) \o Scheduled("error", exc)
                          /\ finished'[<<id, tasks[i].event>>].pubs = <<Pub("error", exc)>>
                    /\ RunTask(i, "ok") => tasks' = Remove(tasks, i)]_vars

\* Both subscribers of an event ran: the first raised and its exception was
\* published as an error event, the second ran to its end.
C8_Witness ==
    /\ "join" \in DOMAIN events
    /\ Len(events["join"]) = 2
    /\ events["join"][1].id = "f"
    /\ events["join"][2].id = "g"
    /\ <<"f", "join">> \in DOMAIN finished
    /\ <<"g", "join">> \in DOMAIN finished
    /\ finished[<<"f", "join">>].outcome = "raise"
    /\ finished[<<"f", "join">>].pubs = <<Pub("error", "exc:f")>>
    /\ finished[<<"g", "join">>].outcome = "ok"

\* Bot.__init__ of a Bot that declares no command of its own.
InitReg ==
    /\ commands = EmptyMap
    /\ command_aliases = EmptyMap
    /\ prefix = [kind |-> "str", value |-> <<"!">>, values |-> <<>>]
    /\ events = EmptyMap
    /\ tasks = <<>>
    /\ finished = EmptyMap
    /\ dispatch = [d \in Slots |-> Idle]
    /\ cache = EmptyMap
    /\ uses = EmptyMap
    /\ lastOp = NoOp
    /\ modules = EmptyMap
    /\ cogs = EmptyMap

NextReg == \E command \in RegInputs : AddCommand(command)

SpecReg == InitReg /\ [][NextReg]_vars

SpecEvents == InitReg /\ [][NextEvents]_vars

(***************************************************************************)
(* Cogs.  A Cog has a name, the name of the module its class is defined in *)
(* (__module__) and the commands declared on it.  A bot is the record of   *)
(* the four maps a call works on, with the exception the call raised       *)
(* ("ok" when none) and the line it ended at.                              *)
(***************************************************************************)
Cog(name, module, cmds) ==
    [is_cog |-> TRUE, name |-> name, module |-> module, commands |-> cmds]

NotACog == [Cog("M", "m", <<>>) EXCEPT !.is_cog = FALSE]

BotOf(cmds, als, cgs, mods, result, at) ==
    [commands |-> cmds, aliases |-> als, cogs |-> cgs, modules |-> mods,
     result |-> result, at |-> at]

Raise(bot, result, at) == [bot EXCEPT !.result = result, !.at = at]

\* Cog._load_methods: every command declared on the cog is bound to the cog
\* and handed to bot.add_command; an exception of add_command ends it.
RECURSIVE load_methods(_, _, _)
load_methods(bot, cog, i) ==
    IF i > Len(cog.commands) THEN Raise(bot, "ok", 378)
    ELSE LET r == add_command(bot.commands, bot.aliases,
                              [cog.commands[i] EXCEPT !.cog = cog.name])
             b == [bot EXCEPT !.commands = r.commands, !.aliases = r.aliases]
         IN  IF r.result # "ok" THEN Raise(b, r.result, r.at)
             ELSE load_methods(b, cog, i + 1)

\* Bot.add_cog
add_cog(bot, cog) ==
    IF ~cog.is_cog THEN Raise(bot, "InvalidCog", 373)
    ELSE IF cog.name \in DOMAIN bot.cogs THEN Raise(bot, "InvalidCog", 376)
    ELSE LET r == load_methods(bot, cog, 1)
         IN  IF r.result # "ok" THEN r
             ELSE Raise([r EXCEPT !.cogs = Put(@, cog.name, cog)], "ok", 379)

\* for name, cmd in <dict>: the loop walks the keys of the dict and unpacks
\* each key, a string, into two names.  A key that is not two characters
\* long raises ValueError; the names of this model are one character long.
\* (A key of two characters gives two one-character strings, and the
\* attribute read on the second raises AttributeError.)  Only an empty dict
\* gets through.
unpack_keys(map) == IF map = EmptyMap THEN "ok" ELSE "ValueError"

\* Bot.remove_cog
remove_cog(bot, cog_name) ==
    IF cog_name \notin DOMAIN bot.cogs THEN Raise(bot, "InvalidCog", 383)
    ELSE LET kept == {n \in DOMAIN bot.commands : bot.commands[n].cog # cog_name}
             b    == [bot EXCEPT !.cogs = Del(@, cog_name),
                                 !.commands = [n \in kept |-> bot.commands[n]]]
         IN  IF unpack_keys(b.aliases) # "ok"
             THEN Raise(b, unpack_keys(b.aliases), 390)
             ELSE Raise(b, "ok", 392)

(***************************************************************************)
(* Modules.  A module object is what importlib.import_module gives for a   *)
(* name: it may fail to import, it has a prepare function or none, and a   *)
(* breakdown function or none.  prepare is the list of calls it makes on   *)
(* the bot, ended by its own raise or not; breakdown removes the cog named *)
(* in it ("none": the module has no breakdown).                            *)
(***************************************************************************)
Module(importable, has_prepare, prepare, breakdown) ==
    [importable |-> importable, has_prepare |-> has_prepare, prepare |-> prepare,
     breakdown |-> breakdown]

CallAddCommand(command) == [op |-> "add_command", command |-> command, cog |-> NotACog]

CallAddCog(cog) == [op |-> "add_cog", command |-> NotACommand, cog |-> cog]

CallRaise == [op |-> "raise", command |-> NotACommand, cog |-> NotACog]

\* module.prepare(bot)
RECURSIVE prepare(_, _, _)
prepare(bot, calls, i) ==
    IF i > Len(calls) THEN Raise(bot, "ok", 302)
    ELSE IF calls[i].op = "raise" THEN Raise(bot, "exc:prepare", 302)
    ELSE IF calls[i].op = "add_cog"
    THEN LET r == add_cog(bot, calls[i].cog)
         IN  IF r.result # "ok" THEN r ELSE prepare(r, calls, i + 1)
    ELSE LET r == add_command(bot.commands, bot.aliases, calls[i].command)
             b == [bot EXCEPT !.commands = r.commands, !.aliases = r.aliases]
         IN  IF r.result # "ok" THEN Raise(b, r.result, r.at)
             ELSE prepare(b, calls, i + 1)

\* Bot.load_module; module is what the import of name gives.
load_module(bot, name, module) ==
    IF name \in DOMAIN bot.modules THEN Raise(bot, "ValueError", 297)
    ELSE IF ~module.importable THEN Raise(bot, "ImportError", 299)
    ELSE IF ~module.has_prepare THEN Raise(bot, "ImportError", 306)
    ELSE LET r == prepare(bot, module.prepare, 1)
         IN  IF r.result # "ok" THEN r
             ELSE Raise([r EXCEPT !.modules = Put(@, name, module)], "ok", 308)

\* module.breakdown(bot)
breakdown(bot, module) ==
    IF module.breakdown = "none" THEN Raise(bot, "ok", 315)
    ELSE remove_cog(bot, module.breakdown)

\* Bot.unload_module.  Line 318 compares cog.__module__, a string, with the
\* module object: no cog is ever selected.
unload_module(bot, name) ==
    IF name \notin DOMAIN bot.modules THEN Raise(bot, "ValueError", 312)
    ELSE LET popped == [bot EXCEPT !.modules = Del(@, name)]
             b      == breakdown(popped, bot.modules[name])
         IN  IF b.result # "ok" THEN b
             ELSE IF unpack_keys(b.commands) # "ok"
             THEN Raise(b, unpack_keys(b.commands), 323)
             ELSE IF unpack_keys(b.aliases) # "ok"
             THEN Raise(b, unpack_keys(b.aliases), 327)
             ELSE Raise(b, "ok", 329)

\* Bot.reload_module; module is what the new import of name gives.
reload_module(bot, name, module) ==
    IF name \notin DOMAIN bot.modules THEN Raise(bot, "ValueError", 333)
    ELSE LET popped == [bot EXCEPT !.modules = Del(@, name)]
         IN  IF unpack_keys(popped.cogs) # "ok"
             THEN Raise(popped, unpack_keys(popped.cogs), 341)
             ELSE IF unpack_keys(popped.commands) # "ok"
             THEN Raise(popped, unpack_keys(popped.commands), 350)
             ELSE IF unpack_keys(popped.aliases) # "ok"
             THEN Raise(popped, unpack_keys(popped.aliases), 355)
             ELSE LET r == load_module(popped, name, module)
                  IN  IF r.result # "ok"
                      THEN Raise([r EXCEPT !.modules = Put(@, name, bot.modules[name])],
                                 r.result, 369)
                      ELSE Raise(r, "ok", 362)

(***************************************************************************)
(* The modules, cogs and commands the calls are made with.  Module m       *)
(* defines the cog M with the command a (alias b), module n the cog N      *)
(* with the command b; either may instead add its own command c, with or   *)
(* without raising after it, add nothing, lack prepare, or fail to import. *)
(***************************************************************************)
ModuleNames == {"m", "n"}

CogOf(name) ==
    IF name = "m"
    THEN Cog("M", "m", << [Command("a", <<"b">>, TRUE) EXCEPT !.module = "m"] >>)
    ELSE Cog("N", "n", << [Command("b", <<>>, TRUE) EXCEPT !.module = "n"] >>)

OwnCommand(name) == [Command("c", <<>>, TRUE) EXCEPT !.module = name]

ModuleObjects(name) ==
    { Module(FALSE, FALSE, <<>>, "none"),
      Module(TRUE, FALSE, <<>>, "none"),
      Module(TRUE, TRUE, <<>>, "none"),
      Module(TRUE, TRUE, <<CallAddCog(CogOf(name))>>, "none"),
      Module(TRUE, TRUE, <<CallAddCog(CogOf(name))>>, CogOf(name).name),
      Module(TRUE, TRUE, <<CallAddCommand(OwnCommand(name))>>, "none"),
      Module(TRUE, TRUE, <<CallAddCommand(OwnCommand(name)), CallRaise>>, "none") }

CogInputs == {CogOf(name) : name \in ModuleNames} \cup {NotACog}

CogNames == {"M", "N"}

\* The commands added directly, beside those of the cogs.
CogCommands ==
    {Command("b", <<>>, TRUE), Command("c", <<>>, TRUE), Command("c", <<"a">>, TRUE)}

ThisBot == BotOf(commands, command_aliases, cogs, modules, "ok", 0)

\* The bot after a call: the four maps as the call left them.
Apply(r, op, arg) ==
    /\ commands' = r.commands
    /\ command_aliases' = r.aliases
    /\ cogs' = r.cogs
    /\ modules' = r.modules
    /\ lastOp' = [op |-> op, arg |-> arg, result |-> r.result, at |-> r.at]
    /\ UNCHANGED <<prefix, events, tasks, finished, dispatch, cache, uses>>

AddCog(cog) == Apply(add_cog(ThisBot, cog), "add_cog", cog.name)

RemoveCog(cog_name) == Apply(remove_cog(ThisBot, cog_name), "remove_cog", cog_name)

LoadModule(name, module) ==
    Apply(load_module(ThisBot, name, module), "load_module", name)

UnloadModule(name) == Apply(unload_module(ThisBot, name), "unload_module", name)

ReloadModule(name, module) ==
    Apply(reload_module(ThisBot, name, module), "reload_module", name)

NextCogs ==
    \/ \E command \in CogCommands : AddCommand(command)
    \/ \E cog \in CogInputs : AddCog(cog)
    \/ \E cog_name \in CogNames : RemoveCog(cog_name)

SpecCogs == InitReg /\ [][NextCogs]_vars

NextModules ==
    \/ \E name \in ModuleNames :
          \E module \in ModuleObjects(name) : LoadModule(name, module)
    \/ \E name \in ModuleNames : UnloadModule(name)
    \/ \E name \in ModuleNames :
          \E module \in ModuleObjects(name) : ReloadModule(name, module)
    \/ \E cog_name \in CogNames : RemoveCog(cog_name)

SpecModules == InitReg /\ [][NextModules]_vars

Range(seq) == {seq[i] : i \in 1..Len(seq)}

(***************************************************************************)
(* Claims about the registry, checked under SpecReg.                       *)
(***************************************************************************)

\* The new command's name or one of its aliases is already a primary name or
\* an alias of the registry.
Collides(command) ==
    (({command.name} \cup Range(command.aliases))
        \cap ((DOMAIN commands) \cup (DOMAIN command_aliases))) # {}

\* C9: add_command fails with a registration error whenever the new
\* command's name or any of its aliases equals a primary name or an alias
\* already in the registry (so no alias mapping is overwritten and no new
\* primary name shadows an alias).
C9_CollisionAlwaysFails ==
    [][\A command \in RegInputs :
          (AddCommand(command) /\ command.is_command /\ Collides(command))
              => lastOp'.result = "TwitchCommandError"]_vars

\* C10: when add_command fails on a colliding alias (the raise of line 135),
\* the name map and the alias map are both what they were before the call.
C10_AliasFailureRollsBack ==
    [][\A command \in RegInputs :
          (AddCommand(command) /\ lastOp'.at = 135)
              => (commands' = commands /\ command_aliases' = command_aliases)]_vars

\* C11: add_command of a command whose name is a registered primary name
\* raises the registration error of line 123 and leaves the name map (the
\* name still maps to the command registered first) and the alias map as
\* they were.  The call is read from the record it leaves: its argument's
\* name, and that the argument was a Command (the call went past line 121).
C11_DuplicateNameRejected ==
    [][(/\ lastOp'.op = "add_command"
        /\ lastOp'.arg \in DOMAIN commands
        /\ lastOp'.at # 121)
              => /\ lastOp'.result = "TwitchCommandError"
                 /\ lastOp'.at = 123
                 /\ commands' = commands
                 /\ command_aliases' = command_aliases]_vars

\* A call that failed on a registered name, in a registry that has aliases.
C11_Witness ==
    /\ lastOp.op = "add_command"
    /\ lastOp.at = 123
    /\ lastOp.arg \in DOMAIN commands
    /\ commands[lastOp.arg].aliases # <<>>
    /\ command_aliases # EmptyMap

(***************************************************************************)
(* The registry after successful calls of add_command only.                *)
(***************************************************************************)
AddCommandOk(command) == AddCommand(command) /\ lastOp'.result = "ok"

NextRegOk == \E command \in RegInputs : AddCommandOk(command)

SpecRegOk == InitReg /\ [][NextRegOk]_vars

\* C13: after successful add_command calls only, get_command(t) is the
\* command registered under the primary name t; when t is only an alias it
\* is a registered command that lists t among its aliases; and it is none
\* when t is neither a name nor an alias.
C13_GetCommandResolves ==
    \A t \in Names :
        LET found == get_command(commands, command_aliases, t)
        IN  /\ t \in DOMAIN commands => found = commands[t]
            /\ (t \notin DOMAIN commands /\ t \in DOMAIN command_aliases) =>
                  /\ found # NotACommand
                  /\ t \in Range(found.aliases)
            /\ (t \notin DOMAIN commands /\ t \notin DOMAIN command_aliases) =>
                  found = NotACommand

(***************************************************************************)
(* Claims about cogs and modules, checked under SpecCogs and SpecModules.  *)
(***************************************************************************)

\* C12: in every state reached by add_command, add_cog and remove_cog
\* calls, whether they succeeded or failed, no key is at once a primary
\* name in the name map and a key of the alias map.
C12_NamesAndAliasesDisjoint ==
    (DOMAIN commands) \cap (DOMAIN command_aliases) = {}

Restrict(map, keys) == [k \in keys |-> map[k]]

\* What a module owns: the commands whose callback is defined in it, the
\* aliases that lead to those commands, and the cogs whose class it defines.
OwnedCommands(name) == {n \in DOMAIN commands : commands[n].module = name}

OwnedAliases(name) ==
    {k \in DOMAIN command_aliases : command_aliases[k] \in OwnedCommands(name)}

OwnedCogs(name) == {c \in DOMAIN cogs : cogs[c].module = name}

\* C14: when reload_module fails in loading the module again (the raise of
\* line 369), the name map, the alias map and the cogs are what they were
\* before the call, the module is still recorded as loaded, and the call
\* ended with the error.
C14_FailedReloadRestores ==
    [][\A name \in ModuleNames :
          \A module \in ModuleObjects(name) :
              (ReloadModule(name, module) /\ lastOp'.at = 369)
                  => /\ commands' = commands
                     /\ command_aliases' = command_aliases
                     /\ cogs' = cogs
                     /\ modules' = modules
                     /\ lastOp'.result # "ok"]_vars

\* C15: unload_module of a loaded module takes the module out of the loaded
\* modules and takes exactly what the module owns out of the name map, the
\* alias map and the cogs.
C15_UnloadRemovesOwned ==
    [][\A name \in ModuleNames :
          (UnloadModule(name) /\ name \in DOMAIN modules)
              => /\ name \notin DOMAIN modules'
                 /\ commands' = Restrict(commands,
                                          (DOMAIN commands) \ OwnedCommands(name))
                 /\ command_aliases' = Restrict(command_aliases,
                                                 (DOMAIN command_aliases)
                                                     \ OwnedAliases(name))
                 /\ cogs' = Restrict(cogs, (DOMAIN cogs) \ OwnedCogs(name))]_vars

(***************************************************************************)
(* Claims about the stages of one dispatch, checked under SpecGates.       *)
(***************************************************************************)
StageRank(stage) ==
    CASE stage = "check"                -> 1
      [] stage = "cooldown"             -> 2
      [] stage = "global_before_invoke" -> 3
      [] stage = "before_invoke"        -> 4
      [] stage = "callback"             -> 5
      [] stage = "event_error"          -> 6
      [] stage = "after_invoke"         -> 7
      [] stage = "global_after_invoke"  -> 8

\* handle_checks took the predicate's result for a pass.
CheckPassed(ev) ==
    ev.stage = "check" /\ ev.outcome \in {"true"} \cup {"unawaited:" \o o : o \in Outcomes}

\* The stages frame c ran are in the order of the pipeline, each at most
\* once (the check stage once per predicate); the cooldown stage ran only
\* after every predicate passed; a hook or the callback ran only after the
\* cooldown stage passed.
StagesInOrder(c) ==
    /\ \A i, j \in 1..Len(c.trace) :
          i < j => /\ StageRank(c.trace[i].stage) <= StageRank(c.trace[j].stage)
                   /\ c.trace[j].stage # "check"
                         => StageRank(c.trace[i].stage) < StageRank(c.trace[j].stage)
                   /\ c.trace[j].stage = "check" => c.trace[i].n < c.trace[j].n
    /\ \A j \in 1..Len(c.trace) :
          c.trace[j].stage = "cooldown" =>
              /\ j = Len(checks_of(c.ctx.command)) + 1
              /\ \A i \in 1..(j - 1) : CheckPassed(c.trace[i])
    /\ \A j \in 1..Len(c.trace) :
          c.trace[j].stage \in HookStages =>
              \E i \in 1..(j - 1) :
                  c.trace[i].stage = "cooldown" /\ c.trace[i].outcome = "passed"

C17_AfterHooksOnSuccessOnly ==
    \A d \in Slots :
        LET c == dispatch[d]
        IN  /\ (Has(c, Ev("callback", 0, "ok")) /\ c.pc = "done") =>
                  /\ c.ctx.command.after_invoke => Ran(c, "after_invoke")
                  /\ Ran(c, "global_after_invoke")
            /\ Has(c, Ev("callback", 0, "raise")) =>
                  /\ ~Ran(c, "after_invoke")
                  /\ ~Ran(c, "global_after_invoke")

\* What predicate number n of frame c's command is: "sync" or "async".
KindOfCheck(c, n) == checks_of(c.ctx.command)[n]

\* C18: a coroutine-function predicate gates the command as a plain one
\* does: when the value it resolves to is false, the check stage ends the
\* dispatch there (no later predicate, no cooldown update, no hook, no
\* callback) with exactly one publication, a command_error.
C18_AsyncCheckGates ==
    \A d \in Slots :
        LET c == dispatch[d]
        IN  \A i \in 1..Len(c.trace) :
                (/\ c.trace[i].stage = "check"
                 /\ KindOfCheck(c, c.trace[i].n) = "async"
                 /\ c.trace[i].outcome \in {"false", "unawaited:false"}) =>
                    /\ i = Len(c.trace)
                    /\ c.pc = "done"
                    /\ Len(c.pubs) = 1
                    /\ c.pubs[1].name = "command_error"

\* The cooldown stage as the claim has it: every bucket of the group is
\* updated, whether or not another one raised, and every error is collected.
RECURSIVE update_every(_, _, _, _, _)
update_every(command, message, buckets, i, cch) ==
    IF i > Len(buckets) THEN [limited |-> <<>>, cache |-> cch]
    ELSE LET r    == update_bucket(cch,
                                   <<command.name, i, bucket_key(buckets[i], message)>>,
                                   buckets[i])
             rest == update_every(command, message, buckets, i + 1, r.cache)
         IN  [limited |-> (IF r.exc # "none" THEN <<r.exc>> ELSE <<>>) \o rest.limited,
              cache   |-> rest.cache]

\* C19: the cooldown stage of a dispatch updates every bucket of the
\* command's first group, also when one of them is exhausted; and when any
\* bucket is exhausted the dispatch ends there with a command_error
\* publication, before any hook and the callback.
C19_EveryBucketUpdated ==
    [][\A d \in Slots :
          (RunCooldowns(d) /\ dispatch[d].ctx.command.cooldowns # <<>>) =>
              LET c   == dispatch[d]
                  all == update_every(c.ctx.command, c.msg,
                                      c.ctx.command.cooldowns[1], 1, cache)
              IN  /\ cache' = all.cache
                  /\ all.limited # <<>> =>
                        /\ dispatch'[d].pc = "done"
                        /\ dispatch'[d].pubs
                              = Append(c.pubs, Pub("command_error", "CommandOnCooldown"))]_vars

\* C20: an exception raised inside a subscriber of the error event is not
\* published as another error event: the task of an error subscriber that
\* raises ends without a publication and without a new task, so a
\* publication is followed by finitely many further ones.
C20_ErrorSubscriberNotRepublished ==
    [][\A i \in 1..Len(tasks) :
          (/\ tasks[i].event = "error"
           /\ lastOp' = lastOp
           /\ events' = events
           /\ RunTask(i, "raise")) =>
              /\ tasks' = Remove(tasks, i)
              /\ finished'[<<tasks[i].func.id, "error">>].pubs = <<>>]_vars

\* C21: add_event with an async function as callback succeeds and appends
\* the callback at the end of the subscriber list of the event name, the
\* earlier subscribers and the other lists staying as they were.
C21_AsyncCallbackSubscribes ==
    [][\A callback \in Callbacks, name \in EventNames \cup {"None"} :
          (callback.kind = "coroutine function" /\ AddEvent(callback, name)) =>
              LET event_name == IF name = "None" THEN callback.name ELSE name
              IN  /\ lastOp'.result = "ok"
                  /\ event_name \in DOMAIN events'
                  /\ events'[event_name]
                        = Append(subscribers(events, event_name), callback)
                  /\ \A other \in DOMAIN events \ {event_name} :
                        other \in DOMAIN events' /\ events'[other] = events[other]]_vars

(***************************************************************************)
(* Concurrent dispatches.  event_message is awaited for every inbound      *)
(* message as a task of its own, so several calls of handle_commands are   *)
(* in flight at once and the loop runs each of them from one suspension    *)
(* to the next, in any order.  The bot declares one command with a         *)
(* cooldown of Rate uses per user and window, and two messages of one      *)
(* user are in flight at a time.                                           *)
(***************************************************************************)
Racers == {1, 2}

CommandR ==
    [Command("r", <<>>, TRUE) EXCEPT
        !.cooldowns = << <<Bucket(Rate, Per, "user")>> >>]

\* The messages of the race come from one user: they share one cooldown key.
RaceMessages == {Msg(<<"!", "r">>, "u1")}

InitRace ==
    /\ commands = init_commands(EmptyMap, EmptyMap, <<CommandR>>, 1).commands
    /\ command_aliases = init_commands(EmptyMap, EmptyMap, <<CommandR>>, 1).aliases
    /\ prefix = [kind |-> "str", value |-> <<"!">>, values |-> <<>>]
    /\ events = EmptyMap
    /\ tasks = <<>>
    /\ finished = EmptyMap
    /\ dispatch = [d \in Racers |-> Idle]
    /\ cache = EmptyMap
    /\ uses = EmptyMap
    /\ lastOp = NoOp
    /\ modules = EmptyMap
    /\ cogs = EmptyMap

\* The command has no hook of its own: invoke goes from the global
\* before-hook to the callback and from there to the global after-hook.
NextRace ==
    \/ \E d \in Racers, message \in RaceMessages : HandleCommands(d, message)
    \/ \E d \in Racers : HandleChecks(d)
    \/ \E d \in Racers : RunCooldowns(d)
    \/ \E d \in Racers : GlobalBeforeInvoke(d)
    \/ \E d \in Racers : Callback(d)
    \/ \E d \in Racers : GlobalAfterInvoke(d)
    \/ \E d \in Racers : Return(d)
    \/ Tick

SpecRace == InitRace /\ [][NextRace]_vars

\* The uses the window of bucket entry id has left: Rate before its first use.
Remaining(cch, id) == IF id \in DOMAIN cch THEN cch[id].remaining ELSE Rate

\* C22: with dispatches of one user for one command in flight at once and a
\* limit of Rate uses per window, the cooldown stage of a dispatch tests and
\* updates the bucket in one step of the loop: it passes exactly when the
\* window has a use left as the step begins and takes that use in the same
\* step; it is stopped before any hook or callback when none is left; no
\* other step gives a use back or touches the bucket inside a window.  So
\* the uses left never go below zero, and no more than Rate dispatches of
\* one window reach the callback, which only a dispatch that passed reaches.
C22_CooldownCheckAndUpdateAtomic ==
    [][/\ \A d \in Racers :
             (dispatch[d].pc = "cooldowns" /\ dispatch'[d] # dispatch[d]) =>
                 LET c  == dispatch[d]
                     id == <<c.ctx.command.name, 1,
                             bucket_key(c.ctx.command.cooldowns[1][1], c.msg)>>
                 IN  IF Remaining(cache, id) > 0
                     THEN /\ dispatch'[d].pc = "global_before_invoke"
                          /\ id \in DOMAIN cache'
                          /\ cache'[id].remaining = Remaining(cache, id) - 1
                     ELSE /\ dispatch'[d].pc = "done"
                          /\ dispatch'[d].pubs
                                = <<Pub("command_error", "CommandOnCooldown")>>
                          /\ cache' = cache
       /\ (\A d \in Racers : dispatch[d].pc # "cooldowns" \/ dispatch'[d] = dispatch[d])
             => cache' \in {cache, elapse(cache)}
       /\ \A id \in DOMAIN cache' :
             /\ cache'[id].remaining \in 0..(Rate - 1)
             /\ id \in DOMAIN cache => cache'[id].remaining <= cache[id].remaining
       /\ \A d \in Racers :
             (dispatch'[d].pc = "callback" \/ Ran(dispatch'[d], "callback"))
                 => \E i \in 1..Len(dispatch'[d].trace) :
                       /\ dispatch'[d].trace[i].stage = "cooldown"
                       /\ dispatch'[d].trace[i].outcome = "passed"]_vars

\* Two dispatches of one user in flight in one window that has no use left:
\* one passed the cooldown stage and is suspended in its callback, the
\* other came to the stage in the same time unit and was stopped.
C22_Witness ==
    \E d \in Racers, e \in Racers :
        /\ d # e
        /\ dispatch[d].pc = "callback"
        /\ dispatch[d].msg = dispatch[e].msg
        /\ dispatch[e].pc = "done"
        /\ Has(dispatch[e], Ev("cooldown", 0, "limited"))
        /\ ~Ran(dispatch[e], "callback")
        /\ Remaining(cache, <<"r", 1, dispatch[d].msg.author>>) = 0

(***************************************************************************)
(* Dispatches whose awaited coroutine may never complete.  The bot         *)
(* declares one command without checks, cooldowns or hooks of its own and  *)
(* has one subscriber of command_error.  The coroutine awaited at lines    *)
(* 227, 232 or 244 returns, raises, or never completes: the frame then     *)
(* stays suspended at that await for good (pc "hung").                     *)
(***************************************************************************)
CommandH == Command("h", <<>>, TRUE)

HangMessages == {Msg(<<"!", "h">>, "u1")}

OnCommandError == EventCallback("g", "callable coroutine")

InitHang ==
    /\ commands = init_commands(EmptyMap, EmptyMap, <<CommandH>>, 1).commands
    /\ command_aliases = init_commands(EmptyMap, EmptyMap, <<CommandH>>, 1).aliases
    /\ prefix = [kind |-> "str", value |-> <<"!">>, values |-> <<>>]
    /\ events = add_event(EmptyMap, OnCommandError, "command_error").events
    /\ tasks = <<>>
    /\ finished = EmptyMap
    /\ dispatch = [d \in Racers |-> Idle]
    /\ cache = EmptyMap
    /\ uses = EmptyMap
    /\ lastOp = NoOp
    /\ modules = EmptyMap
    /\ cogs = EmptyMap

InFlight(c) == c.pc \notin {"idle", "done", "raised", "hung"}

\* The tasks in the queue and the ones the dispatches in flight may yet make.
Pending ==
    Len(tasks) + Cardinality({d \in DOMAIN dispatch : InFlight(dispatch[d])})

\* A message comes in while the queue of the loop has room for its tasks.
Arrive(d, message) ==
    /\ Pending < MaxQueue
    /\ HandleCommands(d, message)

\* The coroutine awaited at line 227, 232 or 244 never completes.
Hang(d) ==
    /\ dispatch[d].pc \in {"global_before_invoke", "callback", "global_after_invoke"}
    /\ Step(d, [dispatch[d] EXCEPT !.pc = "hung"])
    /\ UNCHANGED <<cache, uses>>

\* The await of a hook or of the callback: it returns, raises or hangs.
Await(d) ==
    \/ GlobalBeforeInvoke(d)
    \/ Callback(d)
    \/ GlobalAfterInvoke(d)
    \/ Hang(d)

\* The task at the head of the loop's queue runs to its end.
RunHead == \E outcome \in {"ok", "raise"} : RunTask(1, outcome)

NextHang ==
    \/ \E d \in Racers, message \in HangMessages : Arrive(d, message)
    \/ \E d \in Racers : HandleChecks(d)
    \/ \E d \in Racers : RunCooldowns(d)
    \/ \E d \in Racers : Await(d)
    \/ \E d \in Racers : Return(d)
    \/ RunHead

\* The event loop runs every task that is ready to run: a coroutine that
\* is not suspended in a hung await takes its next step, a task in the
\* queue is run.
FairHang ==
    /\ \A d \in Racers :
          /\ WF_vars(HandleChecks(d))
          /\ WF_vars(RunCooldowns(d))
          /\ WF_vars(Await(d))
          /\ WF_vars(Return(d))
    /\ WF_vars(RunHead)

SpecHang == InitHang /\ [][NextHang]_vars /\ FairHang

\* C23: a callback or hook that never completes blocks only its own
\* dispatch: while the dispatch of one message is hung, the dispatch of
\* any other message, begun before or after, comes to its end unless its
\* own await hangs, and a command_error published meanwhile has its
\* subscriber scheduled and run.
C23_HungCallbackBlocksOnlyItself ==
    /\ \A d \in Racers : \A e \in Racers \ {d} :
          (dispatch[e].pc = "hung" /\ InFlight(dispatch[d]))
              ~> (dispatch[d].pc \in {"done", "raised", "hung"})
    /\ \A d \in Racers : \A e \in Racers \ {d} :
          (/\ dispatch[e].pc = "hung"
           /\ dispatch[d].pubs = <<Pub("command_error", "exc:callback")>>
           /\ <<"g", "command_error">> \notin DOMAIN finished)
              ~> (<<"g", "command_error">> \in DOMAIN finished)

\* One dispatch is hung, the other ran its callback, which raised, came to
\* its end, and the subscriber of command_error has run.
C23_Witness ==
    \E d \in Racers : \E e \in Racers \ {d} :
        /\ dispatch[e].pc = "hung"
        /\ dispatch[d].pc = "done"
        /\ Has(dispatch[d], Ev("callback", 0, "raise"))
        /\ dispatch[d].pubs = <<Pub("command_error", "exc:callback")>>
        /\ <<"g", "command_error">> \in DOMAIN finished
        /\ tasks = <<>>

====
